---- MODULE Spec2Model ----
(***************************************************************************)
(* The Jsonnet lexer of pygments/lexers/jsonnet.py as a state machine.     *)
(*                                                                         *)
(* The rule tables (comments, rvalues, string_rules, quoted_field_name and *)
(* the states of JsonnetLexer.tokens) are translated rule by rule, in the  *)
(* declared order; every regular expression is an operator that returns    *)
(* the offset at which the match anchored at offset p ends, or NoMatch.    *)
(* The scanning engine (RegexLexer) is not part of the lexer module; it is *)
(* modelled from section 4.1 of the specification: first matching rule of  *)
(* the top state wins, one token is emitted, the state action is applied,  *)
(* the cursor advances, and one Error token of one character is emitted    *)
(* when no rule matches.                                                   *)
(*                                                                         *)
(* Text is a sequence of one-character strings; offsets are 0-based, so    *)
(* the character at offset i of t is t[i+1].                               *)
(***************************************************************************)
EXTENDS Integers, Sequences, FiniteSets, TLC

VARIABLES source, cursor, stack, emitted, status

vars == <<source, cursor, stack, emitted, status>>

(***************************************************************************)
(* Characters and character classes.                                       *)
(***************************************************************************)
Lower ==
  {"a","b","c","d","e","f","g","h","i","j","k","l","m",
   "n","o","p","q","r","s","t","u","v","w","x","y","z"}

Upper ==
  {"A","B","C","D","E","F","G","H","I","J","K","L","M",
   "N","O","P","Q","R","S","T","U","V","W","X","Y","Z"}

Digits == {"0","1","2","3","4","5","6","7","8","9"}

\* [_A-Za-z0-9]
jsonnet_token_chars == {"_"} \cup Lower \cup Upper \cup Digits

\* [_A-Za-z], the first character of jsonnet_token
TokenStart == {"_"} \cup Lower \cup Upper

\* \s
Space == {" ", "\t", "\n", "\r", "\f"}

\* the operator class with the colon that the source leaves out
OperatorCharsColon ==
  {"!","$","~","+","-","&","|","^","=","<",">","*","/","%",":"}

\* [!$~+\-&|^=<>*/%]
OperatorChars == {"!","$","~","+","-","&","|","^","=","<",">","*","/","%"}

\* what reading past the end of the text yields: no character at all
EOF == "<EOF>"

\* the result of a pattern that does not match at the offset
NoMatch == -1

Max(S) == CHOOSE x \in S : \A y \in S : y <= x

\* the character at offset i, EOF outside the text
At(t, i) == IF i >= 0 /\ i < Len(t) THEN t[i + 1] ELSE EOF

\* the literal w occurs in t at offset i
HasAt(t, i, w) ==
  /\ i >= 0
  /\ i + Len(w) <= Len(t)
  /\ \A k \in 1..Len(w) : t[i + k] = w[k]

\* greedy [S]* from offset i: the offset after the longest run of S
RECURSIVE RunEnd(_, _, _)
RunEnd(t, i, S) ==
  IF i < Len(t) /\ t[i + 1] \in S THEN RunEnd(t, i + 1, S) ELSE i

\* greedy .* from offset i: `.` is any character but the newline
RECURSIVE DotEnd(_, _)
DotEnd(t, i) ==
  IF i < Len(t) /\ t[i + 1] # "\n" THEN DotEnd(t, i + 1) ELSE i

\* \b after a word character at offset i-1: offset i holds no word character
WordBoundary(t, i) == At(t, i) \notin jsonnet_token_chars

(***************************************************************************)
(* The regular expressions of the module, each anchored at offset p.       *)
(***************************************************************************)

\* jsonnet_token = [_A-Za-z][_A-Za-z0-9]*
jsonnet_token(t, p) ==
  IF At(t, p) \in TokenStart
  THEN RunEnd(t, p + 1, jsonnet_token_chars)
  ELSE NoMatch

\* jsonnet_function_token = jsonnet_token(?=\()
jsonnet_function_token(t, p) ==
  LET e == jsonnet_token(t, p)
  IN  IF e # NoMatch /\ At(t, e) = "(" THEN e ELSE NoMatch

\* (//|#).*\n
LineComment(t, p) ==
  LET s == IF HasAt(t, p, <<"/", "/">>) THEN p + 2
           ELSE IF At(t, p) = "#" THEN p + 1
           ELSE NoMatch
      e == DotEnd(t, s)
  IN  IF s # NoMatch /\ At(t, e) = "\n" THEN e + 1 ELSE NoMatch

\* ([^/]|/(?!\*))* from offset i, taken greedily: the offset after the
\* longest run of characters that are not `/`, or are a `/` that no `*` follows
RECURSIVE CommentBodyEnd(_, _)
CommentBodyEnd(t, i) ==
  IF i < Len(t) /\ (t[i + 1] # "/" \/ At(t, i + 1) # "*")
  THEN CommentBodyEnd(t, i + 1)
  ELSE i

\* <open>([^/]|/(?!\*))*\*/ : the body is greedy and gives back characters
\* until `*/` follows, so the match ends at the last `*/` the body reaches
BlockComment(t, p, open) ==
  IF ~HasAt(t, p, open) THEN NoMatch
  ELSE LET s == p + Len(open)
           b == CommentBodyEnd(t, s)
           C == {q \in s..b : HasAt(t, q, <<"*", "/">>)}
       IN  IF C = {} THEN NoMatch ELSE Max(C) + 2

\* /\*\*([^/]|/(?!\*))*\*/
DocComment(t, p) == BlockComment(t, p, <<"/", "*", "*">>)

\* /\*([^/]|/(?!\*))*\*/
PlainComment(t, p) == BlockComment(t, p, <<"/", "*">>)

\* @'.*'  and  @".*" : greedy, so up to the last quote of the line
VerbatimString(t, p, quote) ==
  IF ~HasAt(t, p, <<"@", quote>>) THEN NoMatch
  ELSE LET e == DotEnd(t, p + 2)
           C == {k \in (p + 2)..(e - 1) : t[k + 1] = quote}
       IN  IF C = {} THEN NoMatch ELSE Max(C) + 1

\* (?s:\|\|\|.*\|\|\|) : greedy over newlines too, so up to the last |||
TextBlock(t, p) ==
  IF ~HasAt(t, p, <<"|", "|", "|">>) THEN NoMatch
  ELSE LET C == {k \in (p + 3)..(Len(t) - 3) : HasAt(t, k, <<"|", "|", "|">>)}
       IN  IF C = {} THEN NoMatch ELSE Max(C) + 3

\* [+-]?[0-9]+(.[0-9])? : the dot is not escaped, it is any character but
\* the newline
NumberFloat(t, p) ==
  LET s == IF At(t, p) \in {"+", "-"} THEN p + 1 ELSE p
      e == RunEnd(t, s, Digits)
  IN  IF e = s THEN NoMatch
      ELSE IF e < Len(t) /\ At(t, e) # "\n" /\ At(t, e + 1) \in Digits
           THEN e + 2
           ELSE e

\* a single character of the class S
OneOf(t, p, S) == IF At(t, p) \in S THEN p + 1 ELSE NoMatch

\* the literal w
Literal(t, p, w) == IF HasAt(t, p, w) THEN p + Len(w) ELSE NoMatch

\* <w>\b
LiteralB(t, p, w) ==
  IF HasAt(t, p, w) /\ WordBoundary(t, p + Len(w)) THEN p + Len(w) ELSE NoMatch

\* <w>(?=\()
LiteralBeforeParen(t, p, w) ==
  IF HasAt(t, p, w) /\ At(t, p + Len(w)) = "(" THEN p + Len(w) ELSE NoMatch

\* (?=[S]) : zero-width, matches where a character of S follows
Lookahead(t, p, S) == IF At(t, p) \in S THEN p ELSE NoMatch

\* \s+
Spaces(t, p) ==
  IF At(t, p) \in Space THEN RunEnd(t, p + 1, Space) ELSE NoMatch

\* the reserved words handed to words(...)
keywords ==
  { <<"a","s","s","e","r","t">>, <<"e","l","s","e">>, <<"e","r","r","o","r">>,
    <<"f","a","l","s","e">>, <<"f","o","r">>, <<"i","f">>,
    <<"i","m","p","o","r","t">>, <<"i","m","p","o","r","t","s","t","r">>,
    <<"i","n">>, <<"n","u","l","l">>,
    <<"t","a","i","l","s","t","r","i","c","t">>, <<"t","h","e","n">>,
    <<"s","e","l","f">>, <<"s","u","p","e","r">>, <<"t","r","u","e">> }

\* ({keywords})(?!{jsonnet_token_chars}) : a reserved word that no identifier
\* character follows (at most one reserved word can qualify at an offset)
KeywordWord(t, p) ==
  LET C == {Len(w) : w \in {k \in keywords :
                              /\ HasAt(t, p, k)
                              /\ At(t, p + Len(k)) \notin jsonnet_token_chars}}
  IN  IF C = {} THEN NoMatch ELSE p + Max(C)

\* std\. + jsonnet_function_token
StdFunction(t, p) ==
  IF HasAt(t, p, <<"s", "t", "d", ".">>)
  THEN jsonnet_function_token(t, p + 4)
  ELSE NoMatch

\* ([^{quote}\\]|\\.)* from offset i: the offset where the run stops
RECURSIVE QuotedBodyEnd(_, _, _)
QuotedBodyEnd(t, i, quote) ==
  IF i >= Len(t) THEN i
  ELSE IF t[i + 1] = "\\"
       THEN IF i + 1 < Len(t) /\ t[i + 2] # "\n"
            THEN QuotedBodyEnd(t, i + 2, quote)
            ELSE i
       ELSE IF t[i + 1] = quote THEN i
            ELSE QuotedBodyEnd(t, i + 1, quote)

\* ([^{quote}\\]|\\.)*{quote}
QuotedFieldName(t, p, quote) ==
  LET e == QuotedBodyEnd(t, p, quote)
  IN  IF At(t, e) = quote THEN e + 1 ELSE NoMatch

\* [^{quote}\\] : one character that is neither the quote nor a backslash
StringChar(t, p, quote) ==
  IF p < Len(t) /\ At(t, p) \notin {quote, "\\"} THEN p + 1 ELSE NoMatch

\* \\. : a backslash and any character but the newline
StringEscape(t, p) ==
  IF At(t, p) = "\\" /\ p + 1 < Len(t) /\ At(t, p + 1) # "\n"
  THEN p + 2
  ELSE NoMatch

\* \+?::?:?
FieldSeparator(t, p) ==
  LET s  == IF At(t, p) = "+" THEN p + 1 ELSE p
      e1 == s + 1
      e2 == IF At(t, e1) = ":" THEN e1 + 1 ELSE e1
      e3 == IF At(t, e2) = ":" THEN e2 + 1 ELSE e2
  IN  IF At(t, s) = ":" THEN e3 ELSE NoMatch

(***************************************************************************)
(* Rules.  A rule is (pattern, token type, state action); the action is    *)
(* the tuple of the source ('#pop', '#pop:2' or a state name per entry),   *)
(* the empty tuple when the rule names no new state.                       *)
(***************************************************************************)
Rule(re, arg, tok, act) == [re |-> re, arg |-> arg, tok |-> tok, act |-> act]

\* the match of rule r anchored at offset p of t: its end offset or NoMatch
Match(r, t, p) ==
  CASE r.re = "OneOf"              -> OneOf(t, p, r.arg)
    [] r.re = "LineComment"        -> LineComment(t, p)
    [] r.re = "DocComment"         -> DocComment(t, p)
    [] r.re = "PlainComment"       -> PlainComment(t, p)
    [] r.re = "VerbatimString"     -> VerbatimString(t, p, r.arg)
    [] r.re = "TextBlock"          -> TextBlock(t, p)
    [] r.re = "NumberFloat"        -> NumberFloat(t, p)
    [] r.re = "Literal"            -> Literal(t, p, r.arg)
    [] r.re = "LiteralB"           -> LiteralB(t, p, r.arg)
    [] r.re = "LiteralBeforeParen" -> LiteralBeforeParen(t, p, r.arg)
    [] r.re = "Lookahead"          -> Lookahead(t, p, r.arg)
    [] r.re = "Spaces"             -> Spaces(t, p)
    [] r.re = "KeywordWord"        -> KeywordWord(t, p)
    [] r.re = "StdFunction"        -> StdFunction(t, p)
    [] r.re = "FunctionToken"      -> jsonnet_function_token(t, p)
    [] r.re = "Token"              -> jsonnet_token(t, p)
    [] r.re = "QuotedFieldName"    -> QuotedFieldName(t, p, r.arg)
    [] r.re = "StringChar"         -> StringChar(t, p, r.arg)
    [] r.re = "StringEscape"       -> StringEscape(t, p)
    [] r.re = "FieldSeparator"     -> FieldSeparator(t, p)

Stay == << >>

w_local == <<"l","o","c","a","l">>

w_assert == <<"a","s","s","e","r","t">>

w_function == <<"f","u","n","c","t","i","o","n">>

comments == <<
  Rule("LineComment", "", "Comment.Single", Stay),
  Rule("DocComment", "", "String.Doc", Stay),
  Rule("PlainComment", "", "Comment", Stay) >>

\* rvalues with the plain identifier rule tried before the function rules
rvalues_token_first == comments \o <<
  Rule("VerbatimString", "'", "String", Stay),
  Rule("VerbatimString", "\"", "String", Stay),
  Rule("OneOf", {"'"}, "String", <<"singlestring">>),
  Rule("OneOf", {"\""}, "String", <<"doublestring">>),
  Rule("TextBlock", "", "String", Stay),
  Rule("NumberFloat", "", "Number.Float", Stay),
  Rule("OneOf", OperatorChars, "Operator", Stay),
  Rule("OneOf", {"{"}, "Punctuation", <<"object">>),
  Rule("OneOf", {"["}, "Punctuation", <<"array">>),
  Rule("LiteralB", w_local, "Keyword", <<"local_name">>),
  Rule("Literal", w_assert, "Keyword", <<"assert">>),
  Rule("KeywordWord", "", "Keyword", Stay),
  Rule("Spaces", "", "Whitespace", Stay),
  Rule("LiteralBeforeParen", w_function, "Keyword", <<"function_params">>),
  Rule("Token", "", "Name.Variable", Stay),
  Rule("StdFunction", "", "Name.Builtin", <<"function_args">>),
  Rule("FunctionToken", "", "Name.Function", <<"function_args">>),
  Rule("OneOf", {".", "(", ")"}, "Punctuation", Stay) >>

rvalues == comments \o <<
  Rule("VerbatimString", "'", "String", Stay),
  Rule("VerbatimString", "\"", "String", Stay),
  Rule("OneOf", {"'"}, "String", <<"singlestring">>),
  Rule("OneOf", {"\""}, "String", <<"doublestring">>),
  Rule("TextBlock", "", "String", Stay),
  Rule("NumberFloat", "", "Number.Float", Stay),
  Rule("OneOf", OperatorChars, "Operator", Stay),
  Rule("OneOf", {"{"}, "Punctuation", <<"object">>),
  Rule("OneOf", {"["}, "Punctuation", <<"array">>),
  Rule("LiteralB", w_local, "Keyword", <<"local_name">>),
  Rule("Literal", w_assert, "Keyword", <<"assert">>),
  Rule("KeywordWord", "", "Keyword", Stay),
  Rule("Spaces", "", "Whitespace", Stay),
  Rule("LiteralBeforeParen", w_function, "Keyword", <<"function_params">>),
  Rule("StdFunction", "", "Name.Builtin", <<"function_args">>),
  Rule("FunctionToken", "", "Name.Function", <<"function_args">>),
  Rule("Token", "", "Name.Variable", Stay),
  Rule("OneOf", {".", "(", ")"}, "Punctuation", Stay) >>

\* string_rules whose escape rule pops the string state
string_rules_escape_pop(quote_mark) == <<
  Rule("StringChar", quote_mark, "String", Stay),
  Rule("StringEscape", "", "String.Escape", <<"#pop">>),
  Rule("OneOf", {quote_mark}, "String", <<"#pop">>) >>

string_rules(quote_mark) == <<
  Rule("StringChar", quote_mark, "String", Stay),
  Rule("StringEscape", "", "String.Escape", Stay),
  Rule("OneOf", {quote_mark}, "String", <<"#pop">>) >>

quoted_field_name(quote_mark) == <<
  Rule("QuotedFieldName", quote_mark, "Name.Variable", <<"field_separator">>) >>

array == <<
  Rule("OneOf", {","}, "Punctuation", Stay),
  Rule("OneOf", {"]"}, "Punctuation", <<"#pop">>) >> \o rvalues

\* local_name whose lookahead rule leaves the stack alone
local_name_stay == <<
  Rule("FunctionToken", "", "Name.Function", <<"function_params">>),
  Rule("Token", "", "Name.Variable", Stay),
  Rule("Spaces", "", "Whitespace", Stay),
  Rule("Lookahead", {"="}, "Whitespace", Stay) >>

local_name == <<
  Rule("FunctionToken", "", "Name.Function", <<"function_params">>),
  Rule("Token", "", "Name.Variable", Stay),
  Rule("Spaces", "", "Whitespace", Stay),
  Rule("Lookahead", {"="}, "Whitespace", <<"#pop", "local_value">>) >>

local_value == <<
  Rule("OneOf", {"="}, "Operator", Stay),
  Rule("OneOf", {";"}, "Punctuation", <<"#pop">>) >> \o rvalues

assert == <<
  Rule("OneOf", {":"}, "Punctuation", Stay),
  Rule("OneOf", {";"}, "Punctuation", <<"#pop">>) >> \o rvalues

function_params == <<
  Rule("Token", "", "Name.Variable", Stay),
  Rule("OneOf", {"("}, "Punctuation", Stay),
  Rule("OneOf", {")"}, "Punctuation", <<"#pop">>),
  Rule("OneOf", {","}, "Punctuation", Stay),
  Rule("Spaces", "", "Whitespace", Stay),
  Rule("OneOf", {"="}, "Operator", <<"function_param_default">>) >>

function_args == <<
  Rule("OneOf", {"("}, "Punctuation", Stay),
  Rule("OneOf", {")"}, "Punctuation", <<"#pop">>),
  Rule("OneOf", {","}, "Punctuation", Stay),
  Rule("Spaces", "", "Whitespace", Stay) >> \o rvalues

object == <<
  Rule("Spaces", "", "Whitespace", Stay),
  Rule("LiteralB", w_local, "Keyword", <<"object_local_name">>),
  Rule("LiteralB", w_assert, "Keyword", <<"object_assert">>),
  Rule("OneOf", {"["}, "Operator", <<"field_name_expr">>),
  Rule("Lookahead", TokenStart, "Name.Variable", <<"field_name">>),
  Rule("OneOf", {"}"}, "Punctuation", <<"#pop">>),
  Rule("OneOf", {"\""}, "Name.Variable", <<"double_field_name">>),
  Rule("OneOf", {"'"}, "Name.Variable", <<"single_field_name">>) >> \o comments

field_name == <<
  Rule("FunctionToken", "", "Name.Function",
       <<"field_separator", "function_params">>),
  Rule("Token", "", "Name.Variable", <<"field_separator">>) >>

field_name_expr == <<
  Rule("OneOf", {"]"}, "Operator", <<"field_separator">>) >> \o rvalues

\* function_param_default whose lookahead rule leaves the stack alone
function_param_default_stay == <<
  Rule("Lookahead", {",", ")"}, "Whitespace", Stay) >> \o rvalues

function_param_default == <<
  Rule("Lookahead", {",", ")"}, "Whitespace", <<"#pop">>) >> \o rvalues

\* field_separator whose separator rule pops one state too many
field_separator_pop3 == <<
  Rule("Spaces", "", "Whitespace", Stay),
  Rule("FieldSeparator", "", "Punctuation",
       <<"#pop", "#pop", "#pop", "field_value">>)
  >> \o comments

field_separator == <<
  Rule("Spaces", "", "Whitespace", Stay),
  Rule("FieldSeparator", "", "Punctuation", <<"#pop", "#pop", "field_value">>)
  >> \o comments

\* field_value whose closing brace pops one state only
field_value_pop1 == <<
  Rule("OneOf", {","}, "Punctuation", <<"#pop">>),
  Rule("OneOf", {"}"}, "Punctuation", <<"#pop">>) >> \o rvalues

\* field_value whose comma pops the object too
field_value_comma_pop2 == <<
  Rule("OneOf", {","}, "Punctuation", <<"#pop:2">>),
  Rule("OneOf", {"}"}, "Punctuation", <<"#pop:2">>) >> \o rvalues

field_value == <<
  Rule("OneOf", {","}, "Punctuation", <<"#pop">>),
  Rule("OneOf", {"}"}, "Punctuation", <<"#pop:2">>) >> \o rvalues

object_assert == <<
  Rule("OneOf", {":"}, "Punctuation", Stay),
  Rule("OneOf", {","}, "Punctuation", <<"#pop">>) >> \o rvalues

\* object_local_name whose identifier rule keeps the state below the value
object_local_name_nopop == <<
  Rule("Token", "", "Name.Variable", <<"object_local_value">>),
  Rule("Spaces", "", "Whitespace", Stay) >>

object_local_name == <<
  Rule("Token", "", "Name.Variable", <<"#pop", "object_local_value">>),
  Rule("Spaces", "", "Whitespace", Stay) >>

object_local_value == <<
  Rule("OneOf", {"="}, "Operator", Stay),
  Rule("OneOf", {","}, "Punctuation", <<"#pop">>),
  Rule("OneOf", {"}"}, "Punctuation", <<"#pop:2">>) >> \o rvalues

\* JsonnetLexer.tokens: the ordered rules of every state
tokens ==
  [ root                   |-> rvalues,
    singlestring           |-> string_rules("'"),
    doublestring           |-> string_rules("\""),
    array                  |-> array,
    local_name             |-> local_name,
    local_value            |-> local_value,
    assert                 |-> assert,
    function_params        |-> function_params,
    function_args          |-> function_args,
    object                 |-> object,
    field_name             |-> field_name,
    double_field_name      |-> quoted_field_name("\""),
    single_field_name      |-> quoted_field_name("'"),
    field_name_expr        |-> field_name_expr,
    function_param_default |-> function_param_default,
    field_separator        |-> field_separator,
    field_value            |-> field_value,
    object_assert          |-> object_assert,
    object_local_name      |-> object_local_name,
    object_local_value     |-> object_local_value ]

(***************************************************************************)
(* The scanning engine.                                                    *)
(***************************************************************************)

\* the number of entries one element of a state action removes (0: it names
\* a state to push)
PopCount(a) ==
  CASE a = "#pop"   -> 1
    [] a = "#pop:2" -> 2
    [] OTHER        -> 0

\* the stack after the elements act(i..) of a state action, applied in
\* order; << >> when an element pops the bottom entry or more
RECURSIVE ApplyAction(_, _, _)
ApplyAction(st, act, i) ==
  IF st = << >> \/ i > Len(act) THEN st
  ELSE LET n == PopCount(act[i])
       IN  IF n = 0 THEN ApplyAction(Append(st, act[i]), act, i + 1)
           ELSE IF n >= Len(st) THEN << >>
           ELSE ApplyAction(SubSeq(st, 1, Len(st) - n), act, i + 1)

\* the index in `rules` of the first rule that matches at offset p, 0 if none
RECURSIVE FirstMatch(_, _, _, _)
FirstMatch(rules, t, p, i) ==
  IF i > Len(rules) THEN 0
  ELSE IF Match(rules[i], t, p) # NoMatch THEN i
  ELSE FirstMatch(rules, t, p, i + 1)

\* the rules of the state on top of the stack
TopRules == tokens[stack[Len(stack)]]

Scanning == status = "scanning" /\ cursor < Len(source)

\* a token that drops the text of whitespace
TokenNoWhitespace(type, text) ==
  [type |-> type, text |-> IF type = "Whitespace" THEN << >> ELSE text]

Token(type, text) == [type |-> type, text |-> text]

\* steps 1-5: the first matching rule of the top state emits its token,
\* applies its state action and moves the cursor past the match
MatchStep ==
  /\ Scanning
  /\ LET i == FirstMatch(TopRules, source, cursor, 1)
     IN  /\ i # 0
         /\ LET r  == TopRules[i]
                e  == Match(r, source, cursor)
                st == ApplyAction(stack, r.act, 1)
            IN  /\ emitted' =
                     Append(emitted, Token(r.tok, SubSeq(source, cursor + 1, e)))
                /\ cursor' = e
                /\ IF st = << >>
                   THEN stack' = stack /\ status' = "underflow"
                   ELSE stack' = st /\ status' = status
  /\ UNCHANGED source

\* step 6: no rule of the top state matches; one Error token of one character
ErrorStep ==
  /\ Scanning
  /\ FirstMatch(TopRules, source, cursor, 1) = 0
  /\ emitted' =
       Append(emitted, Token("Error", SubSeq(source, cursor + 1, cursor + 1)))
  /\ cursor' = cursor + 1
  /\ UNCHANGED <<source, stack, status>>

Next == MatchStep \/ ErrorStep

\* the state of a scan of text t before its first step
Start(t) ==
  /\ source = t
  /\ cursor = 0
  /\ stack = <<"root">>
  /\ emitted = << >>
  /\ status = "scanning"

(***************************************************************************)
(* The inputs of the scans that are checked.  A scan is started on every   *)
(* text that is a concatenation of at most MaxLexemes pieces of one        *)
(* lexicon; each lexicon holds characters and words of one part of the     *)
(* grammar.                                                                *)
(***************************************************************************)
MaxLexemes == 4

\* every concatenation of at most n pieces of the lexicon L
RECURSIVE Texts(_, _)
Texts(L, n) ==
  IF n = 0 THEN {<< >>}
  ELSE LET T == Texts(L, n - 1)
       IN  T \cup {t \o w : t \in T, w \in L}

\* object literals: field names, separators, values
LexObject ==
  { <<"{">>,
    <<"}">>,
    <<"a">>,
    <<":">>,
    <<",">>,
    <<"1">> }

\* quoted field names and their escapes
LexQuoted ==
  { <<"{">>,
    <<"}">>,
    <<"'">>,
    <<"a">>,
    <<"\\">>,
    <<":">> }

\* object-level local and assert
LexMember ==
  { <<"{">>,
    <<"}">>,
    <<"l", "o", "c", "a", "l", " ">>,
    <<"a", "s", "s", "e", "r", "t", " ">>,
    <<"a">>,
    <<",">> }

\* arrays and computed field names
LexExpr ==
  { <<"{">>,
    <<"}">>,
    <<"[">>,
    <<"]">>,
    <<"a">>,
    <<":">> }

\* local bindings
LexLocal ==
  { <<"l", "o", "c", "a", "l">>,
    <<" ">>,
    <<"x">>,
    <<"=">>,
    <<"1">>,
    <<";">> }

\* calls and their arguments
LexCall ==
  { <<"f">>,
    <<"(">>,
    <<")">>,
    <<",">>,
    <<"1">>,
    <<"s", "t", "d", ".">> }

\* function literals, parameters and their defaults
LexFunction ==
  { <<"f", "u", "n", "c", "t", "i", "o", "n">>,
    <<"(">>,
    <<")">>,
    <<"a">>,
    <<"=">>,
    <<",">> }

\* quoted and verbatim strings
LexString ==
  { <<"'">>,
    <<"\"">>,
    <<"\\">>,
    <<"a">>,
    <<"\n">>,
    <<"@">> }

\* line, block and documentation comments
LexComment ==
  { <<"/", "*", "*">>,
    <<"/", "*">>,
    <<"*", "/">>,
    <<"/">>,
    <<"x">>,
    <<"\n">>,
    <<"#">> }

\* reserved words and identifiers that start with one
LexKeyword ==
  { <<"f", "o", "r">>,
    <<"a", "s", "s", "e", "r", "t">>,
    <<"i", "n">>,
    <<"x">>,
    <<" ">>,
    <<"(">> }

\* numbers, operators and text blocks
LexNumber ==
  { <<"1">>,
    <<"-">>,
    <<".">>,
    <<",">>,
    <<"a">>,
    <<"|", "|", "|">> }

Lexicons ==
  {LexObject, LexQuoted, LexMember, LexExpr, LexLocal, LexCall,
   LexFunction, LexString, LexComment, LexKeyword, LexNumber}

Init == \E L \in Lexicons : \E t \in Texts(L, MaxLexemes) : Start(t)

Spec == Init /\ [][Next]_vars

(***************************************************************************)
(* Calls in context: an opener that leads to one of the states that        *)
(* include rvalues, then at most MaxCallLexemes pieces of a call.          *)
(***************************************************************************)
MaxCallLexemes == 3

\* the empty opener (root) and one opener per other state with rvalues
Openers ==
  { << >>,
    <<"[">>,
    <<"l","o","c","a","l"," ","x","=">>,
    <<"a","s","s","e","r","t"," ">>,
    <<"g","(">>,
    <<"{","[">>,
    <<"f","u","n","c","t","i","o","n","(","a","=">>,
    <<"{","a",":">>,
    <<"{","a","s","s","e","r","t"," ">>,
    <<"{","l","o","c","a","l"," ","x","=">> }

\* calls of a function, of a std function and of a reserved word
LexCallBody ==
  { <<"f", "(">>,
    <<"s", "t", "d", ".", "f", "(">>,
    <<"f", "o", "r", "(">>,
    <<"(">>,
    <<")">>,
    <<"1">>,
    <<",">> }

InitCall ==
  \E o \in Openers : \E t \in Texts(LexCallBody, MaxCallLexemes) : Start(o \o t)

SpecCall == InitCall /\ [][Next]_vars

(***************************************************************************)
(* Object literals: `{`, at most MaxFields fields `name sep value` joined  *)
(* by `,`, and `}`; with or without the blanks after separators and        *)
(* commas; at the top level or as the first element of an array.           *)
(***************************************************************************)
MaxFields == 2

\* plain identifiers
PlainNames == { <<"a">>, <<"b", "c">> }

\* plain identifiers, and a name that is no identifier
FieldNames == PlainNames \cup { <<"1">> }

Separators == { <<":">>, <<":", ":">>, <<":", ":", ":">> }

SimpleValues == { <<"1">>, <<"x">> }

Blanks == { << >>, <<" ">> }

ObjectOpeners == { << >>, <<"[">> }

\* the fields `name sep blank value`
Fields(names, blank) ==
  {n \o sp \o blank \o v : n \in names, sp \in Separators, v \in SimpleValues}

\* k fields joined by `,` and the blank
RECURSIVE FieldLists(_, _, _)
FieldLists(names, blank, k) ==
  IF k = 1 THEN Fields(names, blank)
  ELSE {l \o <<",">> \o blank \o f :
           l \in FieldLists(names, blank, k - 1), f \in Fields(names, blank)}

ObjectTexts(names) ==
  UNION { UNION { {o \o <<"{">> \o l \o <<"}">> :
                      o \in ObjectOpeners, l \in FieldLists(names, blank, k)} :
                  k \in 1..MaxFields } :
          blank \in Blanks }

InitObject == \E t \in ObjectTexts(FieldNames) : Start(t)

SpecObject == InitObject /\ [][Next]_vars

(***************************************************************************)
(* Local bindings `local <identifier> = <value>;` and what follows them.   *)
(***************************************************************************)
LocalNames == { <<"x">>, <<"y", "1">> }

LocalValues == { <<"1">>, <<"1", "2">>, <<"y">> }

\* what follows the `;`: nothing, a use of the identifier x, a number, a
\* second `;`
LocalRests == { << >>, <<" ", "x">>, <<"x">>, <<"2">>, <<" ", "2">>, <<";">> }

LocalTexts ==
  {o \o w_local \o <<" ">> \o n \o b \o <<"=">> \o b \o v \o <<";">> \o r :
      o \in ObjectOpeners, n \in LocalNames, b \in Blanks,
      v \in LocalValues, r \in LocalRests}

InitLocal == \E t \in LocalTexts : Start(t)

SpecLocal == InitLocal /\ [][Next]_vars

(***************************************************************************)
(* Properties.                                                             *)
(***************************************************************************)
Last(q) == q[Len(q)]

\* the texts of the tokens i.. of toks, concatenated in emission order
RECURSIVE Concat(_, _)
Concat(toks, i) ==
  IF i > Len(toks) THEN << >> ELSE toks[i].text \o Concat(toks, i + 1)

Finished == status = "scanning" /\ cursor = Len(source)

\* C1 (coverage): at every point of every scan the texts of the tokens
\* emitted so far, concatenated in emission order, are exactly the input up
\* to the cursor; when the scan has finished they are exactly the input.
C1_Coverage ==
  /\ cursor <= Len(source)
  /\ Concat(emitted, 1) = SubSeq(source, 1, cursor)

\* a finished scan that emitted a zero-width token, an Error token and a
\* token with text
C1_Witness ==
  /\ Finished
  /\ \E i \in 1..Len(emitted) : emitted[i].text = << >>
  /\ \E i \in 1..Len(emitted) : emitted[i].type = "Error"
  /\ \E i \in 1..Len(emitted) :
        emitted[i].type # "Error" /\ Len(emitted[i].text) > 1

\* C2 (totality): a scan never fails; for as long as the cursor is before
\* the end of the input the top of the stack is a state of the table, so
\* that a rule or the Error fallback applies; and the scan has taken at most
\* two steps per character consumed, plus one.  Hence it reaches
\* cursor = length(input) within 2 * length(input) + 1 steps and stops there.
C2_Totality ==
  /\ status = "scanning"
  /\ cursor <= Len(source)
  /\ Last(stack) \in DOMAIN tokens
  /\ Len(emitted) <= 2 * cursor + 1

\* a finished scan of an unterminated string inside an unterminated object
C2_Witness ==
  /\ Finished
  /\ Len(source) >= 3
  /\ Len(stack) >= 3
  /\ Last(stack) = "singlestring"

\* C3 (no stack underflow): the stack is never empty, its bottom entry is
\* root, root is nowhere else, and no state action pops the bottom entry.
C3_NoUnderflow ==
  /\ status = "scanning"
  /\ Len(stack) >= 1
  /\ stack[1] = "root"
  /\ \A i \in 2..Len(stack) : stack[i] # "root"

\* the '#pop:2' of field_value has fired after the double '#pop' of the field
\* separator, and the stack is back to [root]
C3_Witness ==
  /\ stack = <<"root">>
  /\ Len(emitted) >= 5
  /\ Last(emitted) = Token("Punctuation", <<"}">>)
  /\ emitted[Len(emitted) - 1] = Token("Punctuation", <<":">>)

\* the last step matched without consuming input
LastZeroWidth == emitted # << >> /\ Last(emitted).text = << >>

\* C10 (zero-width progress): after a zero-width match the scan is not at
\* the end of the input, and the next step matches a rule (emits no Error
\* token) that moves the cursor.
C10_ZeroWidthProgress ==
  /\ [](LastZeroWidth => Scanning)
  /\ [][LastZeroWidth =>
          /\ cursor' > cursor
          /\ Last(emitted').type # "Error"]_vars

\* the lookahead of function_param_default fired and the `,` was then
\* matched in function_params
C10_Witness ==
  \E k \in 1..(Len(emitted) - 1) :
     /\ emitted[k] = Token("Whitespace", << >>)
     /\ emitted[k + 1] = Token("Punctuation", <<",">>)

\* the step taken emits exactly one token, of this type and text
Emits(type, text) == emitted' = Append(emitted, Token(type, text))

\* the text of source from offset p up to, not including, offset e
Span(p, e) == SubSeq(source, p + 1, e)

\* C4 (keyword boundary): a Keyword token is never followed by an identifier
\* character, and in root a reserved word at the cursor that no identifier
\* character follows is the next token, a Keyword.
C4_KeywordBoundary ==
  /\ [](emitted # << >> /\ Last(emitted).type = "Keyword"
          => At(source, cursor) \notin jsonnet_token_chars)
  /\ [][\A w \in keywords :
          /\ Scanning
          /\ Last(stack) = "root"
          /\ HasAt(source, cursor, w)
          /\ At(source, cursor + Len(w)) \notin jsonnet_token_chars
          => Emits("Keyword", w)]_vars

\* [+-]?[0-9]+(\.[0-9])? : a sign at most, digits, and at most a dot and
\* one digit
NumberShape(x) ==
  \E s \in {0, 1} : \E d \in 1..Len(x) :
     /\ s = 1 => x[1] \in {"+", "-"}
     /\ s + d <= Len(x)
     /\ \A i \in (s + 1)..(s + d) : x[i] \in Digits
     /\ \/ Len(x) = s + d
        \/ /\ Len(x) = s + d + 2
           /\ x[s + d + 1] = "."
           /\ x[s + d + 2] \in Digits

\* C5 (number shape): the text of every Number token is an optional sign,
\* digits, and optionally a dot and exactly one digit.
C5_NumberShape ==
  \A i \in 1..Len(emitted) :
     emitted[i].type = "Number.Float" => NumberShape(emitted[i].text)

\* the states whose rule list ends with rvalues
RvalueStates ==
  {"root", "array", "local_value", "assert", "function_args",
   "field_name_expr", "function_param_default", "field_value",
   "object_assert", "object_local_value"}

\* an identifier starts at offset p and a `(` follows it directly
CallAt(p) ==
  /\ At(source, p) \in TokenStart
  /\ At(source, RunEnd(source, p + 1, jsonnet_token_chars)) = "("

\* the offset after the identifier that starts at offset p
IdentEnd(p) == RunEnd(source, p + 1, jsonnet_token_chars)

\* one of the rules that emit Keyword matches at offset p
KeywordRuleAt(p) ==
  \/ LiteralB(source, p, w_local) # NoMatch
  \/ Literal(source, p, w_assert) # NoMatch
  \/ KeywordWord(source, p) # NoMatch
  \/ LiteralBeforeParen(source, p, w_function) # NoMatch

Pop1(st) == SubSeq(st, 1, Len(st) - 1)

CommentStates == RvalueStates \cup {"object", "field_separator"}

\* `*/` occurs in source at some offset from p on
ClosedFrom(p) ==
  \E q \in p..Len(source) : HasAt(source, q, <<"*", "/">>)

\* at offset p: `/**`, and later a `*/` that closes it
DocCommentAt(p) == HasAt(source, p, <<"/", "*", "*">>) /\ ClosedFrom(p + 3)

\* at offset p: `/*` that is not a `/**` form, and later a `*/` that closes it
PlainCommentAt(p) ==
  /\ HasAt(source, p, <<"/", "*">>)
  /\ ~DocCommentAt(p)
  /\ ClosedFrom(p + 2)

\* C9 (block comment classification): in a state with the comment rules a
\* closed `/**` comment at the cursor is emitted as one String.Doc token and
\* a closed `/*` comment that is no `/**` form as one Comment token, each
\* starting with its opener and ending with `*/`.
C9_BlockComment ==
  [][Scanning /\ Last(stack) \in CommentStates =>
       /\ DocCommentAt(cursor) =>
             /\ Last(emitted').type = "String.Doc"
             /\ HasAt(source, cursor' - 2, <<"*", "/">>)
       /\ PlainCommentAt(cursor) =>
             /\ Last(emitted').type = "Comment"
             /\ HasAt(source, cursor' - 2, <<"*", "/">>)]_vars

\* the stack that the opener of a text leaves: [root], or [root, array]
\* after `[`
OpenerStack ==
  IF At(source, 0) = "[" THEN <<"root", "array">> ELSE <<"root">>

\* The tokens of a plain object text t from offset p on, split by character
\* class alone: brackets, braces and commas are Punctuation, a run of
\* colons is Punctuation, a run of blanks Whitespace, a run of digits a
\* Number, an identifier a Name.Variable; with `lookahead`, a zero-width
\* Name.Variable token stands before every field name (an identifier that
\* follows `{` or `,`).
RECURSIVE PlainTokens(_, _, _, _)
PlainTokens(t, p, name, lookahead) ==
  IF p >= Len(t) THEN << >>
  ELSE LET c == t[p + 1]
           e == CASE c = " " -> RunEnd(t, p, {" "})
                  [] c = ":" -> RunEnd(t, p, {":"})
                  [] c \in Digits -> RunEnd(t, p, Digits)
                  [] c \in TokenStart -> RunEnd(t, p, jsonnet_token_chars)
                  [] OTHER -> p + 1
           x == SubSeq(t, p + 1, e)
       IN  CASE c \in {"{", ","} ->
                  <<Token("Punctuation", x)>> \o PlainTokens(t, e, TRUE, lookahead)
             [] c \in {"}", "[", ":"} ->
                  <<Token("Punctuation", x)>> \o PlainTokens(t, e, FALSE, lookahead)
             [] c = " " ->
                  <<Token("Whitespace", x)>> \o PlainTokens(t, e, name, lookahead)
             [] c \in Digits ->
                  <<Token("Number.Float", x)>> \o PlainTokens(t, e, FALSE, lookahead)
             [] OTHER ->
                  (IF name /\ lookahead
                   THEN <<Token("Name.Variable", << >>)>> ELSE << >>)
                  \o <<Token("Name.Variable", x)>>
                  \o PlainTokens(t, e, FALSE, lookahead)

PlainObjects == ObjectTexts(PlainNames)

\* C6 as amended (object field tokenization): for an object literal with
\* plain identifier fields, `:`, `::` or `:::` separators and simple values,
\* the tokens are `{` Punctuation, per field one zero-width Name.Variable
\* token, one Name.Variable token with the field name, one Punctuation token
\* with the separator, the value's token and the `,` Punctuation, Whitespace
\* for the blanks, and the final `}` Punctuation, nothing else; after each
\* `,` the top of the stack is object, and after the final `}` the stack is
\* the one before `{`.
C6_ObjectFields ==
  source \in PlainObjects =>
    /\ emitted = SubSeq(PlainTokens(source, 0, FALSE, TRUE), 1, Len(emitted))
    /\ (emitted # << >> /\ Last(emitted) = Token("Punctuation", <<",">>))
          => Last(stack) = "object"
    /\ Finished => stack = OpenerStack

\* the scan of `{a: 1, bc:: x}` has finished
C6_Witness ==
  /\ Finished
  /\ source = <<"{","a",":"," ","1",","," ","b","c",":",":"," ","x","}">>
  /\ Len(emitted) = 14

\* C6 as stated: the same, with one Name.Variable token per field and no
\* other token.
C6_ObjectFieldsOriginal ==
  source \in PlainObjects =>
    /\ emitted = SubSeq(PlainTokens(source, 0, FALSE, FALSE), 1, Len(emitted))
    /\ (emitted # << >> /\ Last(emitted) = Token("Punctuation", <<",">>))
          => Last(stack) = "object"
    /\ Finished => stack = OpenerStack

\* the offset of the `;` that ends the binding of a text of LocalTexts
RECURSIVE FirstAt(_, _, _)
FirstAt(t, p, c) ==
  IF p >= Len(t) \/ t[p + 1] = c THEN p ELSE FirstAt(t, p + 1, c)

\* the tokens of the binding `local <identifier> = <value>;` that starts at
\* offset p, and of a later use ` x` or `x` of an identifier
LocalTokens(t) ==
  LET p  == IF At(t, 0) = "[" THEN 1 ELSE 0
      n  == p + 6
      ne == RunEnd(t, n, jsonnet_token_chars)
      eq == FirstAt(t, ne, "=")
      v  == IF At(t, eq + 1) = " " THEN eq + 2 ELSE eq + 1
      sc == FirstAt(t, v, ";")
      ws(i) == IF At(t, i) = " " THEN <<Token("Whitespace", <<" ">>)>> ELSE << >>
      val == SubSeq(t, v + 1, sc)
      r  == IF At(t, sc + 1) = " " THEN sc + 2 ELSE sc + 1
  IN  (IF p = 1 THEN <<Token("Punctuation", <<"[">>)>> ELSE << >>)
      \o << Token("Keyword", w_local),
            Token("Whitespace", <<" ">>),
            Token("Name.Variable", SubSeq(t, n + 1, ne)) >>
      \o ws(ne)
      \o << Token("Whitespace", << >>), Token("Operator", <<"=">>) >>
      \o ws(eq + 1)
      \o << Token(IF val[1] \in Digits THEN "Number.Float" ELSE "Name.Variable",
                  val),
            Token("Punctuation", <<";">>) >>
      \o ws(sc + 1)
      \o (IF r >= Len(t) THEN << >>
          ELSE << Token(CASE t[r + 1] \in Digits -> "Number.Float"
                          [] t[r + 1] \in TokenStart -> "Name.Variable"
                          [] OTHER -> "Error",
                        SubSeq(t, r + 1, Len(t))) >>)

\* C8 (local binding): in an rvalue state `local` pushes local_name; in
\* local_name the `=` replaces it by local_value; the scan of
\* `local <identifier> = <value>;` pops at `;`, so that the stack after it
\* is the stack before `local`; the identifier and a later use of it are
\* Name.Variable, `=` is Operator, a numeric value is Number.
C8_LocalBinding ==
  /\ [][Scanning /\ Last(stack) \in RvalueStates
          /\ LiteralB(source, cursor, w_local) # NoMatch
          => Emits("Keyword", w_local) /\ stack' = Append(stack, "local_name")]_vars
  /\ [][Scanning /\ Last(stack) = "local_name" /\ At(source, cursor) = "="
          => stack' = Append(Pop1(stack), "local_value")]_vars
  /\ [](source \in LocalTexts /\ Finished
          => stack = OpenerStack /\ emitted = LocalTokens(source))

(***************************************************************************)
(* Object members: an opener that ends inside an object, then at most      *)
(* MaxMemberLexemes pieces of members: field names of every form with and  *)
(* without their separator, object-level local and assert, `,` and `}`.    *)
(***************************************************************************)
MaxMemberLexemes == 3

\* an object at the top level, in an array, and in the value of a field
MemberOpeners ==
  { <<"{">>,
    <<"[", "{">>,
    <<"{", "a", ":", "{">> }

LexMemberBody ==
  { <<"a">>,
    <<":">>,
    <<"a", ":">>,
    <<"f", "(", "a", ")", ":", ":">>,
    <<"'", "b", "'", ":">>,
    <<"[", "a", "]", ":">>,
    <<"l", "o", "c", "a", "l", " ", "x", "=">>,
    <<"a", "s", "s", "e", "r", "t", " ">>,
    <<",">>,
    <<"}">> }

InitMember ==
  \E o \in MemberOpeners :
     \E t \in Texts(LexMemberBody, MaxMemberLexemes) : Start(o \o t)

SpecMember == InitMember /\ [][Next]_vars

\* the states that hold the value of a member directly inside an object
MemberValueStates == {"field_value", "object_local_value", "object_assert"}

\* the stack without its top two entries
Pop2(st) == SubSeq(st, 1, Len(st) - 2)

\* C11 (object close from a member value): when the top state is
\* field_value, object_local_value or object_assert and `}` is at the
\* cursor, the step emits `}` as Punctuation and pops that state together
\* with the object state below it.
C11_ObjectClose ==
  [][Scanning /\ Last(stack) \in MemberValueStates /\ At(source, cursor) = "}"
       => /\ Emits("Punctuation", <<"}">>)
          /\ Len(stack) >= 3
          /\ stack[Len(stack) - 1] = "object"
          /\ stack' = Pop2(stack)]_vars

\* C12 as amended (pop counts at field-value termination): when `,` ends
\* the value of a field, that step removes one entry from the stack, the
\* field_value state, and leaves object on top; when the closing `}` of the
\* object ends it, that step removes two entries, field_value and object.
\* (The states of the field name and of the separator were removed before,
\* when the separator was matched.)
C12_PopCounts ==
  [][Scanning /\ Last(stack) = "field_value" =>
       /\ At(source, cursor) = "," =>
             /\ Emits("Punctuation", <<",">>)
             /\ Len(stack') = Len(stack) - 1
             /\ stack' = Pop1(stack)
             /\ Last(stack') = "object"
       /\ At(source, cursor) = "}" =>
             /\ Emits("Punctuation", <<"}">>)
             /\ Len(stack') = Len(stack) - 2
             /\ stack' = Pop2(stack)]_vars

\* the object of `[{a:1,bc::x}` has been closed: the `,` and the `}` have
\* both ended a field value, and the stack is [root, array]
C12_Witness ==
  /\ Finished
  /\ source = <<"[", "{", "a", ":", "1", ",", "b", "c", ":", ":", "x", "}">>
  /\ stack = <<"root", "array">>
  /\ Last(emitted) = Token("Punctuation", <<"}">>)
  /\ emitted[Len(emitted) - 1] = Token("Name.Variable", <<"x">>)

\* C12 as stated: the `,` removes two entries, the `}` three.
C12_PopCountsOriginal ==
  [][Scanning /\ Last(stack) = "field_value" =>
       /\ At(source, cursor) = "," => Len(stack') = Len(stack) - 2
       /\ At(source, cursor) = "}" => Len(stack') = Len(stack) - 3]_vars

\* the states in which a field name is scanned
FieldNameStates ==
  {"field_name", "double_field_name", "single_field_name", "field_name_expr"}

\* C13 (object stack shape): in every stack each field_value and each
\* object_local_value entry lies directly above an object entry; when the
\* field-separator rule fires, the two entries it pops are field_separator
\* and a field-name state, with object below them, and field_value is pushed
\* on that object; and the two entries that `}` pops from field_value or
\* object_local_value are that state and the object directly below it.
C13_ObjectStackShape ==
  /\ [](\A i \in 1..Len(stack) :
           stack[i] \in {"field_value", "object_local_value"}
             => i >= 2 /\ stack[i - 1] = "object")
  /\ [][Scanning /\ Last(stack) = "field_separator"
          /\ FieldSeparator(source, cursor) # NoMatch
          => /\ Len(stack) >= 3
             /\ stack[Len(stack) - 1] \in FieldNameStates
             /\ stack[Len(stack) - 2] = "object"
             /\ stack' = Append(Pop2(stack), "field_value")]_vars
  /\ [][Scanning /\ Last(stack) \in {"field_value", "object_local_value"}
          /\ At(source, cursor) = "}"
          => stack = stack' \o <<"object", Last(stack)>>]_vars

\* the inner object of `{a:{f(a)::a}` has been closed from the value of a
\* field whose name is a function: the stack is the one before its `{`
C13_Witness ==
  /\ Finished
  /\ source = <<"{", "a", ":", "{", "f", "(", "a", ")", ":", ":", "a", "}">>
  /\ stack = <<"root", "object", "field_value">>
  /\ Last(emitted) = Token("Punctuation", <<"}">>)

(***************************************************************************)
(* Calls `foo(<arguments>)` with balanced parentheses: at most MaxArgs     *)
(* arguments joined by `,` or `, `, each a number, an identifier, a        *)
(* parenthesised number or a nested call; at the top level or as the first *)
(* element of an array.                                                    *)
(***************************************************************************)
MaxArgs == 2

ArgItems ==
  { <<"1">>,
    <<"2">>,
    <<"x">>,
    <<"(", "1", ")">>,
    <<"g", "(", "x", ")">> }

ArgSeparators == { <<",">>, <<",", " ">> }

\* k arguments joined by the separator sep
RECURSIVE ArgLists(_, _)
ArgLists(sep, k) ==
  IF k = 1 THEN ArgItems
  ELSE {l \o sep \o a : l \in ArgLists(sep, k - 1), a \in ArgItems}

CallTexts ==
  UNION { UNION { {o \o <<"f", "o", "o", "(">> \o l \o <<")">> :
                      o \in ObjectOpeners, l \in ArgLists(sep, k)} :
                  k \in 1..MaxArgs } :
          sep \in ArgSeparators }

InitArgs == \E t \in CallTexts : Start(t)

SpecArgs == InitArgs /\ [][Next]_vars

\* the offset of the `(` that opens the call of a text of CallTexts; the `)`
\* that matches it is the last character of the text
CallOpen == FirstAt(source, 0, "(")

\* C14 (call parentheses match): in the scan of a call `foo(...)` with
\* balanced parentheses, from the call's `(` up to and including the point
\* before the `)` that matches it function_args is on the stack, directly
\* above the stack before the call; no Error token is emitted; and after
\* the matching `)` the stack is the one before the call.
C14_CallParentheses ==
  source \in CallTexts =>
    /\ \A i \in 1..Len(emitted) : emitted[i].type # "Error"
    /\ (cursor >= CallOpen /\ cursor < Len(source)) =>
          /\ Len(stack) > Len(OpenerStack)
          /\ SubSeq(stack, 1, Len(OpenerStack) + 1)
               = Append(OpenerStack, "function_args")
    /\ Finished => stack = OpenerStack

\* a line comment opens at offset p
LineCommentAt(p) == HasAt(source, p, <<"/", "/">>) \/ At(source, p) = "#"

\* the offset after the line that holds offset p: after its newline when it
\* has one, the end of the input when it is the last line and has none
LineEnd(p) ==
  LET e == DotEnd(source, p)
  IN  IF e < Len(source) THEN e + 1 ELSE e

\* C15 (line comment extent): in a state with the comment rules, `//` or
\* `#` at the cursor is emitted as one single-line Comment token that runs
\* to the end of the line, its newline included when there is one, also on
\* a last line without a newline.
C15_LineComment ==
  [][Scanning /\ Last(stack) \in CommentStates /\ LineCommentAt(cursor)
       => Emits("Comment.Single", Span(cursor, LineEnd(cursor)))]_vars

\* the offsets of x, after the two characters of its opening `/*`, at which
\* `*/` occurs
CloserOffsets(x) == {q \in 2..(Len(x) - 2) : HasAt(x, q, <<"*", "/">>)}

\* C16 (block comment end): the text of every block comment token, plain
\* or documentation, contains after its opening `/*` exactly one `*/`, at
\* its very end: the token ends at the first `*/` that follows its opener.
C16_BlockCommentEnd ==
  \A i \in 1..Len(emitted) :
     emitted[i].type \in {"Comment", "String.Doc"}
       => CloserOffsets(emitted[i].text) = {Len(emitted[i].text) - 2}

(***************************************************************************)
(* Quoted strings in context: an opener that leads to one of the states    *)
(* that include rvalues, then at most MaxStringLexemes quotes, backslashes *)
(* and other characters.                                                   *)
(***************************************************************************)
MaxStringLexemes == 4

LexStringBody ==
  { <<"'">>,
    <<"\"">>,
    <<"\\">>,
    <<"a">>,
    <<"\n">> }

InitString ==
  \E o \in Openers :
     \E t \in Texts(LexStringBody, MaxStringLexemes) : Start(o \o t)

SpecString == InitString /\ [][Next]_vars

\* the state that an opening quote pushes
StringState(quote) == IF quote = "'" THEN "singlestring" ELSE "doublestring"

\* the other kind of quote
OtherQuote(quote) == IF quote = "'" THEN "\"" ELSE "'"

\* C17 (quoted strings): in a state with the rvalue rules an opening `'`
\* or `"` is emitted as String and pushes singlestring or doublestring; with
\* that state on top, a backslash and a following character that is no
\* newline are one String.Escape token of two characters and the stack
\* stays, the other kind of quote is String and the stack stays, and the
\* matching quote is String and pops one entry; nothing is ever pushed on a
\* string state, so that pop restores the stack before the opening quote.
C17_QuotedStrings ==
  /\ [](\A i \in 1..(Len(stack) - 1) :
           stack[i] \notin {"singlestring", "doublestring"})
  /\ [][\A quote \in {"'", "\""} :
          /\ (Scanning /\ Last(stack) \in RvalueStates
                /\ At(source, cursor) = quote) =>
                /\ Emits("String", <<quote>>)
                /\ stack' = Append(stack, StringState(quote))
          /\ (Scanning /\ Last(stack) = StringState(quote)) =>
                /\ (At(source, cursor) = "\\"
                      /\ At(source, cursor + 1) \notin {"\n", EOF}) =>
                      /\ Emits("String.Escape", Span(cursor, cursor + 2))
                      /\ stack' = stack
                /\ At(source, cursor) = OtherQuote(quote) =>
                      /\ Emits("String", <<OtherQuote(quote)>>)
                      /\ stack' = stack
                /\ At(source, cursor) = quote =>
                      /\ Emits("String", <<quote>>)
                      /\ stack' = Pop1(stack)]_vars

\* the string '\'' in the value of an object field has been closed: the
\* escaped quote did not end it, the quote after it did
C17_Witness ==
  /\ stack = <<"root", "object", "field_value">>
  /\ Len(emitted) >= 3
  /\ emitted[Len(emitted) - 2] = Token("String", <<"'">>)
  /\ emitted[Len(emitted) - 1] = Token("String.Escape", <<"\\", "'">>)
  /\ Last(emitted) = Token("String", <<"'">>)

(***************************************************************************)
(* Colons in context: an opener that leads to one of the states of the     *)
(* table, then at most MaxColonLexemes colons, identifiers, `+` and        *)
(* blanks.                                                                 *)
(***************************************************************************)
MaxColonLexemes == 3

\* the openers of the states with rvalues, and one opener for each of
\* local_name, function_params, object, object_local_name, field_separator,
\* single_field_name, double_field_name, singlestring and doublestring
ColonOpeners ==
  Openers \cup
  { <<"l","o","c","a","l"," ","x">>,
    <<"f","u","n","c","t","i","o","n","(">>,
    <<"{">>,
    <<"{","l","o","c","a","l"," ">>,
    <<"{","a">>,
    <<"{","'">>,
    <<"{","\"">>,
    <<"'">>,
    <<"\"">> }

LexColon ==
  { <<":">>,
    <<"a">>,
    <<"+">>,
    <<" ">> }

InitColon ==
  \E o \in ColonOpeners :
     \E t \in Texts(LexColon, MaxColonLexemes) : Start(o \o t)

SpecColon == InitColon /\ [][Next]_vars

\* the states that have a rule for `:`
ColonStates == {"field_separator", "assert", "object_assert"}

\* the states in which the cursor is inside a quoted string: the body of a
\* string value or of a quoted field name
QuotedStates ==
  {"singlestring", "doublestring", "single_field_name", "double_field_name"}

\* C18 (stray colon and error fallback): no Operator token holds a `:`; with
\* `:` at the cursor, in field_separator, assert and object_assert the step
\* emits a Punctuation token that starts with it, and in every other state
\* but those inside a quoted string (string values and quoted field names)
\* the step emits one Error token that holds that one character, moves the
\* cursor by one and leaves the stack unchanged.
C18_StrayColon ==
  /\ [](\A i \in 1..Len(emitted) :
           emitted[i].type = "Operator"
             => \A k \in 1..Len(emitted[i].text) : emitted[i].text[k] # ":")
  /\ [][Scanning /\ At(source, cursor) = ":" =>
          /\ Last(stack) \in ColonStates =>
                /\ Emits("Punctuation", Span(cursor, cursor'))
                /\ cursor' > cursor
          /\ Last(stack) \notin ColonStates \cup QuotedStates =>
                /\ Emits("Error", <<":">>)
                /\ cursor' = cursor + 1
                /\ stack' = stack]_vars

\* a `:` in the arguments of a call has been emitted as an Error token and
\* function_args is still on top
C18_Witness ==
  /\ Last(stack) = "function_args"
  /\ Last(emitted) = Token("Error", <<":">>)

====
